---- MODULE Spec2Model ----
(***************************************************************************)
(* LilDBsh (src/src/main.rs): the interactive shell client.                *)
(*                                                                         *)
(* main() discovers the public ip, connect_to_db() obtains the address     *)
(* (argument or raw-mode prompt), retries the transport connection and     *)
(* issues the Connect RPC; handle_shell() then loops: every iteration      *)
(* creates three bounded channels, spawns an input task that runs          *)
(* read_input() and sends the typed text on all three, and the main loop   *)
(* receives the exit flag, possibly calls Disconnect, records the text in  *)
(* the history and hands the command channel to a RunCommand stream.       *)
(*                                                                         *)
(* Strings are sequences of one-character strings, so that trimming and    *)
(* comparison with "exit" are computed and not assumed.                    *)
(***************************************************************************)
EXTENDS Integers, Sequences, FiniteSets, TLC

(* ---------------------------- bounds ---------------------------------- *)

\* iterations of the handle_shell loop that are explored
MaxIter ==
  2

\* inbound messages printed per RunCommand stream
MaxBurst ==
  1

(* ------------------------ program constants ---------------------------- *)

\* let max_retries: i32 = 3;
max_retries ==
  3

\* mpsc::channel(4)
ChannelCapacity ==
  4

EXIT ==
  <<"e", "x", "i", "t">>

\* the characters the user has on the keyboard in this model
Chars ==
  {"e", "x", "i", "t", "a", " "}

\* the texts the user may be in the course of typing (keys are accepted
\* while the buffer stays a prefix of one of them)
UserLines ==
  { EXIT \o <<" ">>, <<"a">>, <<" ">>, <<"\n">> }

(* --------------------------- pure helpers ------------------------------ *)

IsWhitespace(c) ==
  c \in {" ", "\n", "\t", "\r"}

RECURSIVE TrimStart(_)
TrimStart(s) ==
  IF s = <<>> THEN <<>>
  ELSE IF IsWhitespace(Head(s)) THEN TrimStart(Tail(s))
  ELSE s

RECURSIVE TrimEnd(_)
TrimEnd(s) ==
  IF s = <<>> THEN <<>>
  ELSE IF IsWhitespace(s[Len(s)]) THEN TrimEnd(SubSeq(s, 1, Len(s) - 1))
  ELSE s

\* str::trim
Trim(s) ==
  TrimEnd(TrimStart(s))

IsPrefix(s, t) ==
  Len(s) <= Len(t) /\ SubSeq(t, 1, Len(s)) = s

Typable(s) ==
  \E l \in UserLines : IsPrefix(s, l)

\* if command == "exit" { exit = true; }   (exact comparison, no trim)
IsExitCommand(command) ==
  command = EXIT

\* off-by-one variant of the ceiling test: gives up only after the ceiling
\* was exceeded
RetriesExhausted_OffByOne(a) ==
  a > max_retries

\* if attempts >= max_retries { ... process::exit(0) }
RetriesExhausted(a) ==
  a >= max_retries

\* process::exit(0) once the retries are exhausted
ExhaustedExitCode ==
  "0"

VARIABLES
  mainPc,            \* position of main / connect_to_db / handle_shell
  exitStatus,        \* "running", or the exit status "0" / "1" of the process
  rawMode,           \* terminal raw mode enabled
  addressGiven,      \* --address was on the command line
  attempts,          \* connect_to_db: attempts
  connLog,           \* steps the retry loop has taken, in order
  connects,          \* Connect RPCs issued
  channelUp,         \* connect_to_db: channel was assigned (transport is up)
  handshake,         \* answer to the Connect RPC, "none" before it
  messagePrinted,    \* response.message of the Connect RPC was printed
  sessionActive,     \* handle_shell was entered
  disconnects,       \* Disconnect RPCs issued
  lastDisconnect,    \* outcome of the latest Disconnect RPC
  command_history,   \* handle_shell: command_history
  iter,              \* loop iterations started
  reading,           \* who runs read_input: "none", "prompt", "task"
  input,             \* read_input: input
  ch_len,            \* read_input: ch_len
  history_clone,     \* read_input: command_history argument
  taskPc,            \* position of the spawned input task
  exitFlag,          \* task: exit
  txq,               \* channel tx/rx of CommandRequest
  cmdq,              \* channel tx_command/rx_command
  discq,             \* channel tx_disconnect/rx_disconnect
  streamOpen,        \* a RunCommand stream is open
  halfClosed,        \* its outbound half was closed
  streams,           \* RunCommand streams opened
  outputs,           \* inbound messages printed on the current stream
  sent,              \* Commands transmitted to the server, in order
  submitted,         \* lines the user completed with Enter in the shell
  shutdownTriggered, \* the task reported the exit sentinel or an interrupt
  streamFailure,     \* "none", "open" (run_command Err), "read" (inbound Err)
  inputError         \* read_input returned Err inside the input task

vars ==
  << mainPc, exitStatus, rawMode, addressGiven, attempts, connLog, connects,
     channelUp, handshake, messagePrinted, inputError, sessionActive, disconnects, lastDisconnect, command_history, iter,
     reading, input, ch_len, history_clone, taskPc, exitFlag, txq, cmdq,
     discq, streamOpen, halfClosed, streams, outputs, sent, submitted,
     shutdownTriggered, streamFailure >>

startupVars ==
  << addressGiven, attempts, connLog, connects, channelUp, handshake,
     messagePrinted >>

readVars ==
  << reading, input, ch_len, history_clone >>

taskVars ==
  << taskPc, exitFlag >>

chanVars ==
  << txq, cmdq, discq >>

streamVars ==
  << streamOpen, halfClosed, streams, outputs, sent >>

shellVars ==
  << sessionActive, disconnects, lastDisconnect, command_history, iter >>

ghostVars ==
  << submitted, shutdownTriggered, streamFailure, inputError >>

Init ==
  /\ mainPc = "get_ip"
  /\ exitStatus = "running"
  /\ rawMode = FALSE
  /\ addressGiven \in BOOLEAN
  /\ attempts = 0
  /\ connLog = <<>>
  /\ connects = 0
  /\ channelUp = FALSE
  /\ handshake = "none"
  /\ messagePrinted = FALSE
  /\ inputError = FALSE
  /\ sessionActive = FALSE
  /\ disconnects = 0
  /\ lastDisconnect = "none"
  /\ command_history = <<>>
  /\ iter = 0
  /\ reading = "none"
  /\ input = <<>>
  /\ ch_len = 0
  /\ history_clone = <<>>
  /\ taskPc = "none"
  /\ exitFlag = FALSE
  /\ txq = <<>>
  /\ cmdq = <<>>
  /\ discq = <<>>
  /\ streamOpen = FALSE
  /\ halfClosed = FALSE
  /\ streams = 0
  /\ outputs = 0
  /\ sent = <<>>
  /\ submitted = <<>>
  /\ shutdownTriggered = FALSE
  /\ streamFailure = "none"

\* the process ends with the given status (return from main or process::exit)
ProcessExit(status) ==
  /\ mainPc' = "done"
  /\ exitStatus' = status

(* ------------------------------ main ----------------------------------- *)

\* main: reqwest::get("https://api.ipify.org").await?.text().await?
GetPublicIp ==
  /\ mainPc = "get_ip"
  /\ \E ok \in BOOLEAN :
       IF ok
       THEN /\ mainPc' = IF addressGiven THEN "connect" ELSE "prompt"
            /\ UNCHANGED exitStatus
       ELSE ProcessExit("1")
  /\ UNCHANGED << rawMode, startupVars, shellVars, readVars, taskVars,
                  chanVars, streamVars, ghostVars >>

\* connect_to_db: address == "null": enable_raw_mode, prompt, read_input
PromptAddress ==
  /\ mainPc = "prompt"
  /\ \E ok \in BOOLEAN :
       IF ok
       THEN /\ rawMode' = TRUE
            /\ mainPc' = "prompt_read"
            /\ reading' = "prompt"
            /\ input' = <<>>
            /\ history_clone' = <<>>
            /\ ch_len' = 0
            /\ UNCHANGED exitStatus
       ELSE /\ ProcessExit("1")
            /\ UNCHANGED << rawMode, readVars >>
  /\ UNCHANGED << startupVars, shellVars, taskVars, chanVars, streamVars,
                  ghostVars >>

(* ---------------------------- read_input -------------------------------- *)

\* read_input returns Ok(interrupted) to its caller (its local ch_len and the
\* borrowed history are gone):
\*  - connect_to_db ignores the value, disables raw mode and goes on to connect
\*    with the buffer as the address;
\*  - the input task sets exit when interrupted or when command == "exit" and
\*    goes on to its three sends.
ReadReturn(interrupted) ==
  /\ reading' = "none"
  /\ ch_len' = 0
  /\ history_clone' = <<>>
  /\ UNCHANGED input
  /\ IF reading = "prompt"
     THEN /\ rawMode' = FALSE
          /\ mainPc' = "connect"
          /\ UNCHANGED << taskVars, ghostVars >>
     ELSE /\ exitFlag' = (interrupted \/ IsExitCommand(input))
          /\ taskPc' = "send_tx"
          /\ submitted' = IF interrupted THEN submitted
                          ELSE Append(submitted, input)
          /\ shutdownTriggered' = (shutdownTriggered \/ exitFlag')
          /\ UNCHANGED << rawMode, mainPc, streamFailure, inputError >>
  /\ UNCHANGED << exitStatus, startupVars, shellVars, chanVars, streamVars >>

\* a key that only edits the buffer
ReadStays ==
  UNCHANGED << mainPc, exitStatus, rawMode, startupVars, shellVars, reading,
               history_clone, taskVars, chanVars, streamVars, ghostVars >>

\* (KeyCode::Enter, KeyModifiers::ALT) => input.push('\n')
KeyAltEnter ==
  /\ reading # "none"
  /\ Typable(Append(input, "\n"))
  /\ input' = Append(input, "\n")
  /\ UNCHANGED ch_len
  /\ ReadStays

\* (KeyCode::Enter, _) => if !input.is_empty() { break; }
KeyEnter ==
  /\ reading # "none"
  /\ IF input # <<>>
     THEN ReadReturn(FALSE)
     ELSE UNCHANGED vars

\* (KeyCode::Backspace, _) if !input.is_empty() => input.pop()
KeyBackspace ==
  /\ reading # "none"
  /\ input # <<>>
  /\ input' = SubSeq(input, 1, Len(input) - 1)
  /\ UNCHANGED ch_len
  /\ ReadStays

\* (KeyCode::Char('c'), KeyModifiers::CONTROL) => return Ok(true)
KeyCtrlC ==
  /\ reading # "none"
  /\ ReadReturn(TRUE)

\* (KeyCode::Char(c), _) => input.push(c)
KeyChar ==
  /\ reading # "none"
  /\ \E c \in Chars :
       /\ Typable(Append(input, c))
       /\ input' = Append(input, c)
  /\ UNCHANGED ch_len
  /\ ReadStays

\* (KeyCode::Up, _) => if ch_len > 0 { ch_len -= 1; input = history[ch_len] }
KeyUp ==
  /\ reading # "none"
  /\ ch_len > 0
  /\ ch_len' = ch_len - 1
  /\ input' = history_clone[ch_len' + 1]
  /\ ReadStays

\* (KeyCode::Down, _) => if ch_len < len { ch_len += 1;
\*    if ch_len < len { input = history[ch_len] } else { input = "" } }
KeyDown ==
  /\ reading # "none"
  /\ ch_len < Len(history_clone)
  /\ ch_len' = ch_len + 1
  /\ input' = IF ch_len' < Len(history_clone)
              THEN history_clone[ch_len' + 1]
              ELSE <<>>
  /\ ReadStays

\* clear_input()? / stdout().flush()? fails: read_input returns Err.
\*  - in connect_to_db the error leaves main (raw mode stays enabled);
\*  - in the input task the `?` ends the task before any send, which drops
\*    its three senders.
ReadError ==
  /\ reading # "none"
  /\ reading' = "none"
  /\ input' = <<>>
  /\ ch_len' = 0
  /\ history_clone' = <<>>
  /\ IF reading = "prompt"
     THEN /\ ProcessExit("1")
          /\ UNCHANGED << taskVars, inputError >>
     ELSE /\ taskPc' = "ended"
          /\ inputError' = TRUE
          /\ UNCHANGED << exitFlag, mainPc, exitStatus >>
  /\ UNCHANGED << rawMode, startupVars, shellVars, chanVars, streamVars,
                  submitted, shutdownTriggered, streamFailure >>

(* --------------------------- connect_to_db ----------------------------- *)

\* one pass of the retry loop: attempts += 1, Channel::from_shared(input)?,
\* connect().await, then Ok => break, Err => exit(0) when exhausted else retry
Attempt ==
  /\ mainPc = "connect"
  /\ attempts' = attempts + 1
  /\ \E outcome \in {"invalid_uri", "ok", "err"} :
       /\ channelUp' = (outcome = "ok")
       /\ CASE outcome = "invalid_uri" ->
                 /\ connLog' = Append(connLog, "attempt")
                 /\ ProcessExit("1")
            [] outcome = "ok" ->
                 /\ connLog' = connLog \o <<"attempt", "connected">>
                 /\ mainPc' = "handshake"
                 /\ UNCHANGED exitStatus
            [] outcome = "err" ->
                 IF RetriesExhausted(attempts')
                 THEN /\ connLog' = connLog \o <<"attempt", "failed", "giveup">>
                      /\ ProcessExit(ExhaustedExitCode)
                 ELSE /\ connLog' = connLog \o <<"attempt", "failed", "retry">>
                      /\ UNCHANGED << mainPc, exitStatus >>
  /\ UNCHANGED << rawMode, addressGiven, connects, handshake, messagePrinted,
                  shellVars, readVars, taskVars, chanVars, streamVars,
                  ghostVars >>

\* variant that repeats the handshake when the server rejects it
ConnectRpc_Retry ==
  /\ mainPc = "handshake"
  /\ connects' = connects + 1
  /\ input' = <<>>
  /\ \E outcome \in {"transport_error", "rejected", "success"} :
       /\ handshake' = outcome
       /\ CASE outcome = "success" ->
                 /\ messagePrinted' = TRUE
                 /\ mainPc' = "enable_raw"
                 /\ attempts' = 0
                 /\ connLog' = <<>>
                 /\ UNCHANGED exitStatus
            [] outcome = "rejected" ->
                 UNCHANGED << mainPc, exitStatus, attempts, connLog,
                              messagePrinted >>
            [] outcome = "transport_error" ->
                 /\ ProcessExit("1")
                 /\ UNCHANGED << attempts, connLog, messagePrinted >>
  /\ UNCHANGED << rawMode, addressGiven, channelUp, shellVars, reading,
                  ch_len, history_clone, taskVars, chanVars, streamVars,
                  ghostVars >>

\* client.connect_to_db(ConnectRequest{ip}).await?; success => the server's
\* message is printed and Ok(client) returned, else error!("Failed to connect
\* to") and process::exit(1).  On return the locals of connect_to_db (input,
\* attempts) are gone.
ConnectRpc ==
  /\ mainPc = "handshake"
  /\ connects' = connects + 1
  /\ input' = <<>>
  /\ \E outcome \in {"transport_error", "rejected", "success"} :
       /\ handshake' = outcome
       /\ IF outcome = "success"
          THEN /\ messagePrinted' = TRUE
               /\ mainPc' = "enable_raw"
               /\ attempts' = 0
               /\ connLog' = <<>>
               /\ UNCHANGED exitStatus
          ELSE /\ ProcessExit("1")
               /\ UNCHANGED << attempts, connLog, messagePrinted >>
  /\ UNCHANGED << rawMode, addressGiven, channelUp, shellVars, reading,
                  ch_len, history_clone, taskVars, chanVars, streamVars,
                  ghostVars >>

\* main: enable_raw_mode()?; handle_shell(...)
EnableRaw ==
  /\ mainPc = "enable_raw"
  /\ \E ok \in BOOLEAN :
       IF ok
       THEN /\ rawMode' = TRUE
            /\ sessionActive' = TRUE
            /\ mainPc' = "loop"
            /\ UNCHANGED exitStatus
       ELSE /\ ProcessExit("1")
            /\ UNCHANGED << rawMode, sessionActive >>
  /\ UNCHANGED << startupVars, disconnects, lastDisconnect, command_history,
                  iter, readVars, taskVars, chanVars, streamVars, ghostVars >>

(* ---------------------------- handle_shell ----------------------------- *)

\* top of the loop: three fresh channels, command_history.clone(),
\* tokio::spawn of the input task, which enters read_input with an empty
\* command and ch_len = command_history.len().  The previous task, if any,
\* has nothing left to do but return.
LoopTop ==
  /\ mainPc = "loop"
  /\ iter < MaxIter
  /\ taskPc \in {"none", "ended"}
  /\ iter' = iter + 1
  /\ txq' = <<>>
  /\ cmdq' = <<>>
  /\ discq' = <<>>
  /\ history_clone' = command_history
  /\ input' = <<>>
  /\ ch_len' = Len(command_history)
  /\ reading' = "task"
  /\ taskPc' = "reading"
  /\ exitFlag' = FALSE
  /\ mainPc' = "recv_disconnect"
  /\ UNCHANGED << exitStatus, rawMode, startupVars, sessionActive,
                  disconnects, lastDisconnect, command_history, streamVars,
                  ghostVars >>

\* tx.send(CommandRequest { command: command.clone() }).await?
TaskSendTx ==
  /\ taskPc = "send_tx"
  /\ Len(txq) < ChannelCapacity
  /\ txq' = Append(txq, input)
  /\ taskPc' = "send_command"
  /\ UNCHANGED << mainPc, exitStatus, rawMode, startupVars, shellVars,
                  readVars, exitFlag, cmdq, discq, streamVars, ghostVars >>

\* tx_command.send(command).await?   (command is moved into the channel)
TaskSendCommand ==
  /\ taskPc = "send_command"
  /\ Len(cmdq) < ChannelCapacity
  /\ cmdq' = Append(cmdq, input)
  /\ input' = <<>>
  /\ taskPc' = "send_disconnect"
  /\ UNCHANGED << mainPc, exitStatus, rawMode, startupVars, shellVars,
                  reading, ch_len, history_clone, exitFlag, txq, discq,
                  streamVars, ghostVars >>

\* tx_disconnect.send(exit).await?
TaskSendDisconnect ==
  /\ taskPc = "send_disconnect"
  /\ Len(discq) < ChannelCapacity
  /\ discq' = Append(discq, exitFlag)
  /\ taskPc' = "return"
  /\ UNCHANGED << mainPc, exitStatus, rawMode, startupVars, shellVars,
                  readVars, exitFlag, txq, cmdq, streamVars, ghostVars >>

\* Ok::<(), anyhow::Error>(()): the task ends and its senders are dropped
TaskReturn ==
  /\ taskPc = "return"
  /\ taskPc' = "ended"
  /\ UNCHANGED << mainPc, exitStatus, rawMode, startupVars, shellVars,
                  readVars, exitFlag, chanVars, streamVars, ghostVars >>

\* variant whose recv never yields None: it keeps waiting for a value after
\* the task has ended without sending
RecvDisconnect_NoNone ==
  /\ mainPc = "recv_disconnect"
  /\ discq # <<>>
  /\ discq' = Tail(discq)
  /\ mainPc' = IF Head(discq) THEN "disconnect" ELSE "recv_command"
  /\ UNCHANGED << exitStatus, rawMode, startupVars, shellVars, readVars,
                  taskVars, txq, cmdq, streamVars, ghostVars >>

\* if let Some(should_exit) = rx_disconnect.recv().await { if should_exit ..
\* recv yields None once the channel is empty and the sender was dropped
RecvDisconnect ==
  /\ mainPc = "recv_disconnect"
  /\ \/ /\ discq # <<>>
        /\ discq' = Tail(discq)
        /\ mainPc' = IF Head(discq) THEN "disconnect" ELSE "recv_command"
     \/ /\ discq = <<>>
        /\ taskPc = "ended"
        /\ UNCHANGED discq
        /\ mainPc' = "recv_command"
  /\ UNCHANGED << exitStatus, rawMode, startupVars, shellVars, readVars,
                  taskVars, txq, cmdq, streamVars, ghostVars >>

\* client.disconnect_from_db(DisconnectRequest{ip}).await?.into_inner();
\* if disconnection.success { break; }  -- otherwise falls through
DisconnectRpc ==
  /\ mainPc = "disconnect"
  /\ disconnects' = disconnects + 1
  /\ \E outcome \in {"transport_error", "refused", "success"} :
       /\ lastDisconnect' = outcome
       /\ CASE outcome = "transport_error" -> ProcessExit("1")
            [] outcome = "refused" ->
                 /\ mainPc' = "recv_command"
                 /\ UNCHANGED exitStatus
            [] outcome = "success" ->
                 /\ mainPc' = "shell_returned"
                 /\ UNCHANGED exitStatus
  /\ UNCHANGED << rawMode, startupVars, sessionActive, command_history,
                  iter, readVars, taskVars, chanVars, streamVars, ghostVars >>

\* main: handle_shell(...).await? returned Ok; disable_raw_mode()?; Ok(())
MainReturn ==
  /\ mainPc = "shell_returned"
  /\ rawMode' = FALSE
  /\ ProcessExit("0")
  /\ UNCHANGED << startupVars, shellVars, readVars, taskVars, chanVars,
                  streamVars, ghostVars >>

\* variant that inserts the received line at the front of the history
RecvCommand_Prepend ==
  /\ mainPc = "recv_command"
  /\ \/ /\ cmdq # <<>>
        /\ cmdq' = Tail(cmdq)
        /\ command_history' = <<Head(cmdq)>> \o command_history
     \/ /\ cmdq = <<>>
        /\ taskPc = "ended"
        /\ UNCHANGED << cmdq, command_history >>
  /\ mainPc' = "run_command"
  /\ UNCHANGED << exitStatus, rawMode, startupVars, sessionActive,
                  disconnects, lastDisconnect, iter, readVars, taskVars,
                  txq, discq, streamVars, ghostVars >>

\* if let Some(command) = rx_command.recv().await { command_history.push(..) }
RecvCommand ==
  /\ mainPc = "recv_command"
  /\ \/ /\ cmdq # <<>>
        /\ cmdq' = Tail(cmdq)
        /\ command_history' = Append(command_history, Head(cmdq))
     \/ /\ cmdq = <<>>
        /\ taskPc = "ended"
        /\ UNCHANGED << cmdq, command_history >>
  /\ mainPc' = "run_command"
  /\ UNCHANGED << exitStatus, rawMode, startupVars, sessionActive,
                  disconnects, lastDisconnect, iter, readVars, taskVars,
                  txq, discq, streamVars, ghostVars >>

\* match client.run_command(ReceiverStream::new(rx)).await
\*   Ok(response) => read the inbound messages
\*   Err(e) => error!("Command failed: {}", e)  -- rx is dropped, loop again
RunCommand ==
  /\ mainPc = "run_command"
  /\ \E ok \in BOOLEAN :
       IF ok
       THEN /\ streamOpen' = TRUE
            /\ halfClosed' = FALSE
            /\ streams' = streams + 1
            /\ outputs' = 0
            /\ mainPc' = "inbound"
            /\ UNCHANGED << txq, streamFailure >>
       ELSE /\ txq' = <<>>
            /\ streamFailure' = "open"
            /\ mainPc' = "loop"
            /\ UNCHANGED << streamOpen, halfClosed, streams, outputs >>
  /\ UNCHANGED << exitStatus, rawMode, startupVars, shellVars, readVars,
                  taskVars, cmdq, discq, sent, submitted, shutdownTriggered,
                  inputError >>

\* the request stream forwards the next queued CommandRequest to the server
StreamSend ==
  /\ streamOpen
  /\ txq # <<>>
  /\ sent' = Append(sent, Head(txq))
  /\ txq' = Tail(txq)
  /\ UNCHANGED << mainPc, exitStatus, rawMode, startupVars, shellVars,
                  readVars, taskVars, cmdq, discq, streamOpen, halfClosed,
                  streams, outputs, ghostVars >>

\* variant that closes the outbound half without waiting for the queue to be
\* drained and its sender dropped
HalfClose_Early ==
  /\ streamOpen
  /\ ~halfClosed
  /\ halfClosed' = TRUE
  /\ UNCHANGED << mainPc, exitStatus, rawMode, startupVars, shellVars,
                  readVars, taskVars, chanVars, streamOpen, streams, outputs,
                  sent, ghostVars >>

\* ReceiverStream ends (queue drained, sender dropped): outbound half closes
HalfClose ==
  /\ streamOpen
  /\ ~halfClosed
  /\ txq = <<>>
  /\ taskPc = "ended"
  /\ halfClosed' = TRUE
  /\ UNCHANGED << mainPc, exitStatus, rawMode, startupVars, shellVars,
                  readVars, taskVars, chanVars, streamOpen, streams, outputs,
                  sent, ghostVars >>

\* while let Some(res) = inbound.message().await? { print!(res.output) }
InboundMsg ==
  /\ mainPc = "inbound"
  /\ outputs < MaxBurst
  /\ outputs' = outputs + 1
  /\ UNCHANGED << mainPc, exitStatus, rawMode, startupVars, shellVars,
                  readVars, taskVars, chanVars, streamOpen, halfClosed,
                  streams, sent, ghostVars >>

\* variant in which the loop does not wait for the stream to end: it goes
\* back to the top while the stream is still open
InboundEnd_Detached ==
  /\ mainPc = "inbound"
  /\ mainPc' = "loop"
  /\ UNCHANGED << exitStatus, rawMode, startupVars, shellVars, readVars,
                  taskVars, chanVars, streamOpen, halfClosed, streams,
                  outputs, sent, ghostVars >>

\* inbound.message() yields None: the server ended the response stream,
\* which it does after the client's half-close; the stream and its count of
\* printed messages are gone, back to the top of the loop
InboundEnd ==
  /\ mainPc = "inbound"
  /\ halfClosed
  /\ streamOpen' = FALSE
  /\ outputs' = 0
  /\ mainPc' = "loop"
  /\ UNCHANGED << exitStatus, rawMode, startupVars, shellVars, readVars,
                  taskVars, chanVars, halfClosed, streams, sent, ghostVars >>

\* variant that treats a read error like the Err arm of run_command: it is
\* logged and the loop goes on
InboundErr_Logged ==
  /\ mainPc = "inbound"
  /\ streamOpen' = FALSE
  /\ streamFailure' = "read"
  /\ mainPc' = "loop"
  /\ UNCHANGED << exitStatus, rawMode, startupVars, shellVars, readVars,
                  taskVars, chanVars, halfClosed, streams, outputs, sent,
                  submitted, shutdownTriggered, inputError >>

\* inbound.message().await? fails: the error leaves handle_shell and main
InboundErr ==
  /\ mainPc = "inbound"
  /\ streamOpen' = FALSE
  /\ streamFailure' = "read"
  /\ ProcessExit("1")
  /\ UNCHANGED << rawMode, startupVars, shellVars, readVars, taskVars,
                  chanVars, halfClosed, streams, outputs, sent, submitted,
                  shutdownTriggered, inputError >>

Next ==
  \/ GetPublicIp
  \/ PromptAddress
  \/ KeyAltEnter
  \/ KeyEnter
  \/ KeyBackspace
  \/ KeyCtrlC
  \/ KeyChar
  \/ KeyUp
  \/ KeyDown
  \/ ReadError
  \/ Attempt
  \/ ConnectRpc
  \/ EnableRaw
  \/ LoopTop
  \/ TaskSendTx
  \/ TaskSendCommand
  \/ TaskSendDisconnect
  \/ TaskReturn
  \/ RecvDisconnect
  \/ DisconnectRpc
  \/ MainReturn
  \/ RecvCommand
  \/ RunCommand
  \/ StreamSend
  \/ HalfClose
  \/ InboundMsg
  \/ InboundEnd
  \/ InboundErr

Spec ==
  Init /\ [][Next]_vars

\* the tokio runtime runs every task that is ready: a send with room in its
\* channel, the return of the input task and a receive that has a value or a
\* closed channel are eventually executed
FairSpec ==
  /\ Spec
  /\ WF_vars(TaskSendTx)
  /\ WF_vars(TaskSendCommand)
  /\ WF_vars(TaskSendDisconnect)
  /\ WF_vars(TaskReturn)
  /\ WF_vars(RecvDisconnect)
  /\ WF_vars(RecvCommand)

TypeOK ==
  /\ exitStatus \in {"running", "0", "1"}
  /\ (exitStatus # "running") <=> (mainPc = "done")
  /\ attempts \in 0..(max_retries + 1)
  /\ Len(txq) <= ChannelCapacity

(* ------------------------------ claims --------------------------------- *)

\* the retry loop has logged that it gave up
GaveUp ==
  connLog # <<>> /\ connLog[Len(connLog)] = "giveup"

AttemptCount ==
  Cardinality({i \in DOMAIN connLog : connLog[i] = "attempt"})

\* a line that is neither blank nor the sentinel, after trimming
IsNormalLine(l) ==
  Trim(l) # <<>> /\ Trim(l) # EXIT

\* C1: Disconnect is invoked exactly once per session that reached
\* SessionActive: never twice in a run, and once the process has terminated
\* after the session was active it was invoked (not zero times).
C1_DisconnectExactlyOnce ==
  /\ disconnects <= 1
  /\ (mainPc = "done" /\ sessionActive) => disconnects = 1

\* C2: no Command transmitted on a RunCommand stream equals "exit" after
\* trimming surrounding whitespace.
C2_ExitNeverTransmitted ==
  \A i \in DOMAIN sent : Trim(sent[i]) # EXIT

\* C3: no string that is empty after trimming is ever on the OutboundQueue.
C3_NoBlankEnqueued ==
  \A i \in DOMAIN txq : Trim(txq[i]) # <<>>

\* C4: once shutdown was triggered (exit sentinel or interrupt reported by the
\* input task), no further loop iteration reads input and no further Command
\* is transmitted, whatever Disconnect returns.
C4_ShutdownIsFinal ==
  [][shutdownTriggered => (iter' = iter /\ sent' = sent)]_vars

\* C5: a transport-level failure of the Disconnect RPC is not propagated: the
\* process terminates with status 0, as it does when Disconnect succeeds.
C5_DisconnectFailureNotPropagated ==
  (mainPc = "done" /\ lastDisconnect = "transport_error") => exitStatus = "0"

\* C6: whenever the loop is between iterations (or has left the loop after a
\* successful Disconnect), the Commands transmitted are exactly the normal
\* lines the user submitted, in order.
C6_SentEqualsNormalLines ==
  mainPc \in {"loop", "shell_returned"}
    => sent = SelectSeq(submitted, IsNormalLine)

C8_AtMostThreeAttempts ==
  /\ attempts <= 3
  /\ AttemptCount <= 3
  /\ GaveUp => /\ mainPc = "done"
               /\ attempts = 3
               /\ connects = 0
               /\ ~sessionActive
               /\ iter = 0

C8_Witness ==
  GaveUp /\ AttemptCount = 3 /\ mainPc = "done"

\* C9: when the retry ceiling is exhausted the process exits with a non-zero
\* status.
C9_ExhaustedExitsNonZero ==
  GaveUp => exitStatus = "1"

\* C10: no two connection attempts occur without a delay step between them.
C10_DelayBetweenAttempts ==
  \A i, j \in DOMAIN connLog :
    (i < j /\ connLog[i] = "attempt" /\ connLog[j] = "attempt")
      => \E k \in (i + 1)..(j - 1) : connLog[k] = "delay"

\* C11: when the server answers the Connect RPC with success=false the
\* process has exited non-zero, the interactive loop was never entered, no
\* RunCommand stream was opened, and the server's message was printed.
C11_RejectedHandshake ==
  handshake = "rejected"
    => /\ exitStatus = "1"
       /\ ~sessionActive
       /\ iter = 0
       /\ streams = 0
       /\ messagePrinted

\* C12: the Connect RPC is issued at most once, only with the transport up,
\* exactly once as soon as the handshake step is behind, and before any
\* command line is read or any RunCommand stream is opened.
C12_ConnectOnce ==
  /\ connects <= 1
  /\ connects >= 1 => channelUp
  /\ (channelUp /\ mainPc # "handshake") => connects = 1
  /\ (sessionActive \/ iter > 0 \/ reading = "task" \/ streams > 0
        \/ submitted # <<>>) => connects = 1

C12_Witness ==
  connects = 1 /\ streams >= 1 /\ submitted # <<>> /\ channelUp

C14_InputDuringOutput ==
  (streamOpen /\ mainPc = "inbound" /\ sent # <<>>)
    => ENABLED (KeyChar \/ KeyCtrlC)

\* C15: once read_input has failed in the input task, no further loop
\* iteration reads input, and the process does not terminate without a
\* Disconnect attempt.
C15_InputErrorIsFatal ==
  [][inputError => /\ iter' = iter
                   /\ (mainPc' = "done" => disconnects' >= 1)]_vars

\* the session of the scenario: two iterations, the line "a" then "exit",
\* no stream or input failure, Disconnect answered with success
OneCommandThenExit ==
  /\ iter = 2
  /\ submitted = << <<"a">>, EXIT >>
  /\ mainPc = "done"
  /\ lastDisconnect = "success"
  /\ streamFailure = "none"
  /\ ~inputError

HandOffRoom ==
  /\ Len(txq) <= 1
  /\ Len(cmdq) <= 1
  /\ Len(discq) <= 1
  /\ taskPc = "send_tx" => ENABLED TaskSendTx
  /\ taskPc = "send_command" => ENABLED TaskSendCommand
  /\ taskPc = "send_disconnect" => ENABLED TaskSendDisconnect
  /\ (mainPc = "recv_command" /\ cmdq = <<>>) => taskPc = "ended"

\* C18: the hand-off never deadlocks: no send of the task waits on the main
\* loop, each channel holds at most one message, and once the task has left
\* read_input every receive of the main loop returns (rx_disconnect, then
\* rx_command).
C18_HandOffCompletes ==
  /\ []HandOffRoom
  /\ (mainPc = "recv_disconnect" /\ reading = "none")
       ~> (mainPc # "recv_disconnect")
  /\ (mainPc = "recv_command") ~> (mainPc # "recv_command")

C18_Witness ==
  /\ mainPc = "recv_disconnect"
  /\ taskPc = "send_command"
  /\ Len(txq) = 1

\* C19: the command history only grows at its end, by the line the input
\* task delivered on rx_command (the line the user just submitted when the
\* task did not ask to exit), at most one entry per iteration, and the input
\* task reads with exactly the history recorded so far.
C19_HistoryAppendOnly ==
  [][ /\ IsPrefix(command_history, command_history')
      /\ (command_history' # command_history)
           => command_history' = Append(command_history, Head(cmdq))
      /\ (command_history' # command_history /\ ~exitFlag)
           => command_history'[Len(command_history')]
                = submitted[Len(submitted)]
      /\ Len(command_history') <= iter'
      /\ (reading' = "task") => history_clone' = command_history' ]_vars

C19_Witness ==
  /\ Len(command_history) = 2
  /\ command_history[1] # command_history[2]
  /\ command_history = submitted

\* C20: whenever the process has terminated, terminal raw mode is disabled.
C20_RawModeRestored ==
  mainPc = "done" => ~rawMode

====
